---- MODULE Spec2Model ----
(***************************************************************************)
(* Model of TypescriptExtractor (src/src/extractor/index.ts): the two-phase *)
(* declaration collector (runPreparerOnFile / runOnFile), the module tree   *)
(* builder, the type resolver and the serializer.                           *)
(*                                                                          *)
(* JavaScript values are encoded as follows.                                *)
(*   - an optional value is a sequence: <<>> is undefined, <<v>> is v;      *)
(*   - a Map is a sequence of [k, v] pairs in insertion order;              *)
(*   - a Module object is an index into `heap` (objects have identity);     *)
(*   - a thrown exception is the record Thrown, propagated by every caller; *)
(*   - a file name is a sequence of one-character strings.                  *)
(***************************************************************************)
EXTENDS Integers, Sequences, FiniteSets, TLC

VARIABLES
    heap,            \* the Module objects created so far; heap[1] is settings.module
    moduleCache,     \* this.moduleCache: file name -> Module
    namespaceCache,  \* this.namespaceCache: namespace name -> Module
    currentModule,   \* this.currentModule (0: undefined)
    references,      \* the reference index the extractor was constructed with
    locs,            \* history: every Loc returned by getLOC, with the module it was made in
    arg,             \* the last operation and its input
    ret,             \* what the last operation returned (or that it threw)
    ops,             \* number of operations run so far
    history          \* whether the runs so far form one pass (every file prepared once,
                     \* then visited once, no run throwing), and how far the pass is

vars ==
    <<heap, moduleCache, namespaceCache, currentModule, references, locs, arg, ret, ops,
      history>>

-----------------------------------------------------------------------------
(* JavaScript values *)

None == <<>>
Some(v) == <<v>>

Thrown == [thrown |-> "TypeError"]
IsThrown(r) == "thrown" \in DOMAIN r
AnyThrown(s) == \E i \in DOMAIN s : IsThrown(s[i])
OptThrown(o) == o # None /\ IsThrown(o[1])

\* `${v}` for an optional string
Template(o) == IF o = None THEN "undefined" ELSE o[1]
\* truthiness of an optional string
Truthy(o) == o # None /\ o[1] # ""

RECURSIVE Join(_)
Join(cs) == IF cs = <<>> THEN "" ELSE Head(cs) \o Join(Tail(cs))

\* Map operations (insertion order kept; set on an existing key keeps its place)
MapHas(m, k) == \E i \in DOMAIN m : m[i].k = k
MapIndex(m, k) == CHOOSE i \in DOMAIN m : m[i].k = k
MapGet(m, k) == m[MapIndex(m, k)].v
MapSet(m, k, v) ==
    IF MapHas(m, k) THEN [m EXCEPT ![MapIndex(m, k)] = [k |-> k, v |-> v]]
    ELSE Append(m, [k |-> k, v |-> v])
MapValues(m) == [i \in DOMAIN m |-> m[i].v]

RECURSIVE Flatten(_)
Flatten(ss) == IF ss = <<>> THEN <<>> ELSE Head(ss) \o Flatten(Tail(ss))

-----------------------------------------------------------------------------
(* util: getLastItemFromPath *)

\* String.prototype.lastIndexOf for a one-character needle, 0-based, -1 if absent
LastIndexOf(cs, c) ==
    IF \E i \in DOMAIN cs : cs[i] = c
    THEN (CHOOSE i \in DOMAIN cs : cs[i] = c /\ \A j \in DOMAIN cs : cs[j] = c => j <= i) - 1
    ELSE -1

getLastItemFromPath(path) ==
    Join(SubSeq(path, LastIndexOf(path, "\\") + 1 + 1, Len(path)))

\* String.prototype.split("/")
RECURSIVE SplitSlash(_, _)
SplitSlash(cs, acc) ==
    IF cs = <<>> THEN acc
    ELSE IF Head(cs) = "/" THEN SplitSlash(Tail(cs), Append(acc, ""))
    ELSE SplitSlash(Tail(cs), [acc EXCEPT ![Len(acc)] = acc[Len(acc)] \o Head(cs)])

\* Array.prototype.indexOf, 0-based, -1 if absent
IndexOf(s, x) ==
    IF \E i \in DOMAIN s : s[i] = x
    THEN (CHOOSE i \in DOMAIN s : s[i] = x /\ \A j \in DOMAIN s : s[j] = x => i <= j) - 1
    ELSE -1

-----------------------------------------------------------------------------
(* structure: createModule *)

createModule(name, isGlobal, repository, isNamespace) ==
    [name |-> name, isGlobal |-> isGlobal, repository |-> repository,
     isNamespace |-> isNamespace,
     classes |-> <<>>, interfaces |-> <<>>, enums |-> <<>>, types |-> <<>>,
     functions |-> <<>>, constants |-> <<>>, modules |-> <<>>]

-----------------------------------------------------------------------------
(* ReferenceManager: the reference index.  `references` holds the names it  *)
(* can resolve, those that are external, and the default-export names.      *)

ReferenceManager_resolveSymbol(name, moduleName) ==
    IF name \in references.known
    THEN Some([name |-> name,
               path |-> IF moduleName = None THEN <<>> ELSE <<moduleName[1]>>,
               external |-> Some(name \in references.external),
               kind |-> "CLASS"])
    ELSE None

ReferenceManager_isDefault(name) == name \in references.defaults

-----------------------------------------------------------------------------
(* Type resolver *)

\* a ts.Symbol, or a plain string passed where a symbol is expected
StringSymbol(s) == [isString |-> TRUE, name |-> s, flags |-> {}, parentEnum |-> None]

resolveSymbol(symbol, typeParameters, moduleName) ==
    IF ~symbol.isString /\ "TypeParameter" \in symbol.flags
    THEN [type |-> [name |-> symbol.name, kind |-> "STRINGIFIED_UNKNOWN"],
          typeParameters |-> typeParameters,
          kind |-> "REFERENCE"]
    ELSE IF ~symbol.isString /\ "EnumMember" \in symbol.flags /\ symbol.parentEnum # None
    THEN LET thing == ReferenceManager_resolveSymbol(symbol.parentEnum[1], None)
         IN  IF thing = None THEN [kind |-> "UNKNOWN"]
             ELSE [kind |-> "REFERENCE",
                   type |-> [displayName |-> symbol.name,
                             name |-> thing[1].name,
                             path |-> thing[1].path,
                             external |-> thing[1].external,
                             kind |-> "ENUM_MEMBER"]]
    ELSE LET symbolRef == ReferenceManager_resolveSymbol(symbol.name, moduleName)
         IN  IF symbolRef # None
             THEN [type |-> symbolRef[1], typeParameters |-> typeParameters, kind |-> "REFERENCE"]
             ELSE [name |-> symbol.name, kind |-> "UNKNOWN"]

\* a default that names the node's kind instead of its text
fallbackTypeNamed(type) == [name |-> type.kind, kind |-> "STRINGIFIED_UNKNOWN"]

\* default: return {name: type.getText(), kind: TypeKinds.STRINGIFIED_UNKNOWN}
fallbackType(type) == [name |-> type.text, kind |-> "STRINGIFIED_UNKNOWN"]

\* resolveType, resolveProperty, resolveParameter, resolveGenerics and
\* resolveExpressionToType call one another; they are the arms of one recursive
\* operator, selected by the name of the method called on `node`
RECURSIVE resolveNode(_, _)
resolveNode(method, node) ==
    CASE method = "resolveType" ->
        (
        CASE node.kind = "TypeReference" ->
                LET symbol == node.typeName.symbol
                    typeParameters ==
                        IF node.typeArguments = None THEN [opt |-> None]
                        ELSE LET r == resolveNode("resolveTypes", node.typeArguments[1])
                             IN  IF IsThrown(r) THEN Thrown ELSE [opt |-> Some(r.items)]
                IN  IF IsThrown(typeParameters) THEN Thrown
                    ELSE IF symbol = None
                    THEN IF ~node.typeName.qualified /\ ReferenceManager_isDefault(node.typeName.text)
                         THEN [type |-> [name |-> node.typeName.text, kind |-> "DEFAULT_API"],
                               typeParameters |-> typeParameters.opt,
                               kind |-> "REFERENCE"]
                         ELSE [type |-> [name |-> node.text, kind |-> "STRINGIFIED_UNKNOWN"],
                               typeParameters |-> typeParameters.opt,
                               kind |-> "REFERENCE"]
                    ELSE IF symbol[1].name = "unknown" /\ node.typeName.qualified
                    THEN resolveSymbol(StringSymbol(node.typeName.right), typeParameters.opt,
                                       Some(node.typeName.left))
                    ELSE resolveSymbol(symbol[1], typeParameters.opt, None)
          [] node.kind = "FunctionType" ->
                LET tp == IF node.typeParameters = None THEN None
                          ELSE Some([i \in DOMAIN node.typeParameters[1] |->
                                        resolveNode("resolveGenerics", node.typeParameters[1][i])])
                    rt == resolveNode("resolveType", node.type)
                    ps == [i \in DOMAIN node.parameters |-> resolveNode("resolveParameter", node.parameters[i])]
                IN  IF (tp # None /\ AnyThrown(tp[1])) \/ IsThrown(rt) \/ AnyThrown(ps) THEN Thrown
                    ELSE [typeParameters |-> tp, returnType |-> rt, parameters |-> ps,
                          kind |-> "ARROW_FUNCTION"]
          [] node.kind = "TypeLiteral" ->
                LET ps == [i \in DOMAIN node.members |-> resolveNode("resolveProperty", node.members[i])]
                IN  IF AnyThrown(ps) THEN Thrown
                    ELSE [properties |-> ps, kind |-> "OBJECT_LITERAL"]
          [] node.kind = "UnionType" ->
                LET r == resolveNode("resolveTypes", node.types)
                IN  IF IsThrown(r) THEN Thrown ELSE [types |-> r.items, kind |-> "UNION"]
          [] node.kind = "IntersectionType" ->
                LET r == resolveNode("resolveTypes", node.types)
                IN  IF IsThrown(r) THEN Thrown ELSE [types |-> r.items, kind |-> "INTERSECTION"]
          [] node.kind = "TupleType" ->
                LET r == resolveNode("resolveTypes", node.elements)
                IN  IF IsThrown(r) THEN Thrown ELSE [types |-> r.items, kind |-> "TUPLE"]
          [] node.kind = "TypeOperator" ->
                LET kind == CASE node.operator = "UniqueKeyword" -> "UNIQUE_OPERATOR"
                              [] node.operator = "KeyOfKeyword" -> "KEYOF_OPERATOR"
                              [] node.operator = "ReadonlyKeyword" -> "READONLY_OPERATOR"
                              [] OTHER -> "undefined"
                    r == resolveNode("resolveType", node.type)
                IN  IF IsThrown(r) THEN Thrown ELSE [kind |-> kind, type |-> r]
          [] node.kind = "ArrayType" ->
                LET r == resolveNode("resolveType", node.elementType)
                IN  IF IsThrown(r) THEN Thrown ELSE [type |-> r, kind |-> "ARRAY_TYPE"]
          [] node.kind = "ParenthesizedType" -> resolveNode("resolveType", node.type)
          [] node.kind = "ThisType" ->
                IF node.symbol = None THEN [name |-> node.text, kind |-> "STRINGIFIED_UNKNOWN"]
                ELSE resolveSymbol(node.symbol[1], None, None)
          [] node.kind = "LiteralType" -> resolveNode("resolveType", node.literal)
          [] node.kind = "NumberKeyword" -> [name |-> "number", kind |-> "NUMBER"]
          [] node.kind = "StringKeyword" -> [name |-> "string", kind |-> "STRING"]
          [] node.kind = "BooleanKeyword" -> [name |-> "boolean", kind |-> "BOOLEAN"]
          [] node.kind = "TrueKeyword" -> [name |-> "true", kind |-> "TRUE"]
          [] node.kind = "FalseKeyword" -> [name |-> "false", kind |-> "FALSE"]
          [] node.kind = "UndefinedKeyword" -> [name |-> "undefined", kind |-> "UNDEFINED"]
          [] node.kind = "NullKeyword" -> [name |-> "null", kind |-> "NULL"]
          [] node.kind = "VoidKeyword" -> [name |-> "void", kind |-> "VOID"]
          [] node.kind = "AnyKeyword" -> [name |-> "any", kind |-> "ANY"]
          [] node.kind = "UnknownKeyword" -> [name |-> "unknown", kind |-> "UNKNOWN"]
          [] node.kind \in {"BigIntLiteral", "NumericLiteral"} ->
                [name |-> node.text, kind |-> "NUMBER_LITERAL"]
          [] node.kind = "StringLiteral" -> [name |-> node.text, kind |-> "STRING_LITERAL"]
          [] OTHER -> fallbackType(node)
        )
      [] method = "resolveTypes" ->
        (
        \* nodes.map(n => this.resolveType(n)): throws as soon as one element throws
        LET r == [i \in DOMAIN node |-> resolveNode("resolveType", node[i])]
        IN  IF AnyThrown(r) THEN Thrown ELSE [items |-> r]
        )
      [] method = "resolveOptType" ->
        (
        \* node && this.resolveType(node)
        IF node = None THEN [opt |-> None]
        ELSE LET r == resolveNode("resolveType", node[1])
             IN  IF IsThrown(r) THEN Thrown ELSE [opt |-> Some(r)]
        )
      [] method = "resolveGenerics" ->
        (
        LET d == resolveNode("resolveOptType", node.default)
            c == resolveNode("resolveOptType", node.constraint)
        IN  IF IsThrown(d) \/ IsThrown(c) THEN Thrown
            ELSE [name |-> node.name, default |-> d.opt, constraint |-> c.opt]
        )
      [] method = "resolveParameter" ->
        (
        LET name == IF node.nameIsIdentifier THEN node.name ELSE "__namedParameters"
            t == resolveNode("resolveOptType", node.type)
            dv == IF node.initializer = None THEN None
                  ELSE Some(resolveNode("resolveExpressionToType", node.initializer[1]))
        IN  IF IsThrown(t) \/ OptThrown(dv) THEN Thrown
            ELSE [name |-> name,
                  isOptional |-> node.questionToken,
                  rest |-> node.dotDotDotToken,
                  type |-> t.opt,
                  defaultValue |-> dv,
                  jsDoc |-> [comment |-> node.paramTagComment]]
        )
      [] method = "resolveProperty" ->
        (
        IF node.kind = "PropertySignature"
        THEN LET t == resolveNode("resolveOptType", node.type)
             IN  IF IsThrown(t) THEN Thrown
                 ELSE [name |-> node.name,
                       type |-> t.opt,
                       isOptional |-> node.questionToken,
                       isReadonly |-> IF node.modifiers = {} THEN None
                                      ELSE Some("readonly" \in node.modifiers)]
        ELSE \* node is read as an index signature, whatever it is
             IF node.parameters = <<>> THEN Thrown      \* param is undefined: param.type throws
             ELSE LET param == node.parameters[1]
                      key == resolveNode("resolveOptType", param.type)
                      t == IF node.type = None THEN Thrown  \* resolveType(undefined) reads undefined.kind
                           ELSE resolveNode("resolveType", node.type[1])
                  IN  IF IsThrown(key) \/ IsThrown(t) THEN Thrown
                      ELSE [key |-> key.opt, type |-> t, start |-> node.pos, end |-> node.end]
        )
      [] method = "resolveExpressionToType" ->
        (
        IF node.kind = "NewExpression" /\ node.expressionIsIdentifier
        THEN LET ta == IF node.typeArguments = None THEN [opt |-> None]
                       ELSE LET r == resolveNode("resolveTypes", node.typeArguments[1])
                            IN  IF IsThrown(r) THEN Thrown ELSE [opt |-> Some(r.items)]
             IN  IF IsThrown(ta) THEN Thrown
                 ELSE resolveSymbol(StringSymbol(node.expressionText), ta.opt, None)
        ELSE IF node.kind = "PropertyAccessExpression" /\ node.leftSym # None
                /\ "Module" \in node.leftSym[1].flags
        THEN resolveSymbol(node.leftSym[1], None, Some(node.name))
        ELSE CASE node.kind \in {"BigIntLiteral", "NumericLiteral"} ->
                    [name |-> Join(node.text), kind |-> "NUMBER_LITERAL"]
               [] node.kind = "FalseKeyword" -> [name |-> "false", kind |-> "FALSE"]
               [] node.kind = "TrueKeyword" -> [name |-> "true", kind |-> "TRUE"]
               [] node.kind = "StringLiteral" -> [name |-> Join(node.text), kind |-> "STRING_LITERAL"]
               [] node.kind = "NullKeyword" -> [name |-> "null", kind |-> "NULL"]
               [] node.kind = "UndefinedKeyword" -> [name |-> "undefined", kind |-> "UNDEFINED"]
               [] OTHER -> [name |-> Join(node.text), kind |-> "STRINGIFIED_UNKNOWN"]
        )

resolveType(type) == resolveNode("resolveType", type)
resolveTypes(nodes) == resolveNode("resolveTypes", nodes)
resolveOptType(node) == resolveNode("resolveOptType", node)
resolveGenerics(generic) == resolveNode("resolveGenerics", generic)
resolveParameter(param) == resolveNode("resolveParameter", param)
resolveProperty(prop) == resolveNode("resolveProperty", prop)
resolveExpressionToType(exp) == resolveNode("resolveExpressionToType", exp)

resolveHeritage(param) ==
    LET ta == IF param.typeArguments = None THEN [opt |-> None]
              ELSE LET r == resolveTypes(param.typeArguments[1])
                   IN  IF IsThrown(r) THEN Thrown ELSE [opt |-> Some(r.items)]
    IN  IF IsThrown(ta) THEN Thrown
        ELSE IF param.expression.kind = "PropertyAccessExpression"
        THEN resolveSymbol(StringSymbol(param.expression.leftText), ta.opt,
                           Some(param.expression.name))
        ELSE IF param.expression.kind = "Identifier"
        THEN resolveSymbol(StringSymbol(param.expression.text), ta.opt, None)
        ELSE [type |-> [name |-> param.expression.text, kind |-> "STRINGIFIED_UNKNOWN"],
              typeParameters |-> ta.opt,
              kind |-> "REFERENCE"]

\* fn.inferred is what the checker infers for the declaration: absent when there
\* is no signature, no return type or no symbol on it
resolveReturnType(fn) ==
    IF fn.type # None THEN resolveOptType(fn.type)
    ELSE IF fn.inferred = None THEN [opt |-> None]
    ELSE [opt |-> Some(resolveSymbol(fn.inferred[1].symbol,
            IF fn.inferred[1].resolvedTypeArguments = None THEN None
            ELSE Some([i \in DOMAIN fn.inferred[1].resolvedTypeArguments[1] |->
                    LET t == fn.inferred[1].resolvedTypeArguments[1][i]
                    IN  IF t = None THEN [kind |-> "ANY", name |-> "any"]
                        ELSE resolveSymbol(t[1], None, None)]),
            None))]

\* node.jsDoc is the list of documentation blocks attached to the node
jsDocTag(tag, type) ==
    IF IsThrown(type) THEN Thrown
    ELSE [name |-> tag.tagName, comment |-> tag.comment, arg |-> tag.name,
          type |-> type.opt]

jsDocBlock(currentDoc, tags) ==
    IF tags = None THEN [comment |-> currentDoc.comment, tags |-> None]
    ELSE IF AnyThrown(tags[1]) THEN Thrown
    ELSE [comment |-> currentDoc.comment, tags |-> tags]

jsDocBlocks(res) == IF AnyThrown(res) THEN Thrown ELSE [opt |-> Some(res)]

getJSDocData(node) ==
    IF node.jsDoc = <<>> THEN [opt |-> None]
    ELSE jsDocBlocks([i \in DOMAIN node.jsDoc |->
            jsDocBlock(node.jsDoc[i],
                IF node.jsDoc[i].tags = None THEN None
                ELSE Some([k \in DOMAIN node.jsDoc[i].tags[1] |->
                        jsDocTag(node.jsDoc[i].tags[1][k],
                                 resolveOptType(node.jsDoc[i].tags[1][k].typeExpression))]))])

-----------------------------------------------------------------------------
(* The extractor's mutable state, threaded through the handlers as a record *)

State == [heap |-> heap, moduleCache |-> moduleCache, namespaceCache |-> namespaceCache,
          currentModule |-> currentModule, locs |-> locs, threw |-> FALSE]

Throw(S) == [S EXCEPT !.threw = TRUE]
Cur(S) == S.heap[S.currentModule]

\* node.modifiers && node.modifiers.some(mod => mod.kind === keyword): undefined
\* when the node has no modifiers
HasModifier(node, keyword) ==
    IF node.modifiers = {} THEN None ELSE Some(keyword \in node.modifiers)

(* Location/provenance tracker *)
getLOC(S, node, fileName, includeLine) ==
    IF Cur(S).isNamespace
    THEN [pos |-> [line |-> node.line, character |-> node.character],
          sourceFile |-> Some(Template(Cur(S).repository) \o "#L" \o ToString(node.line + 1))]
    ELSE [pos |-> [line |-> node.line, character |-> node.character],
          sourceFile |-> IF Truthy(Cur(S).repository)
                         THEN Some(Template(Cur(S).repository) \o "/"
                                   \o getLastItemFromPath(fileName)
                                   \o (IF includeLine THEN "#L" \o ToString(node.line + 1)
                                       ELSE ""))
                         ELSE Cur(S).repository]

\* history of the Locs getLOC returned: where and for which file
Logged(S, fileName, loc) ==
    [S EXCEPT !.locs = @ \cup {[loc |-> loc, module |-> S.currentModule,
                                file |-> Join(fileName)]}]

RECURSIVE LogAll(_, _, _)
LogAll(S, fileName, ls) ==
    IF ls = <<>> THEN S ELSE LogAll(Logged(S, fileName, Head(ls)), fileName, Tail(ls))

(* Module tree builder *)
newChild(h, lastModule, pathPart) ==
    Append([h EXCEPT ![lastModule].modules = MapSet(@, pathPart, Len(h) + 1)],
           createModule(pathPart, FALSE,
                        Some(Template(h[lastModule].repository) \o "/" \o pathPart), FALSE))

RECURSIVE walkPath(_, _, _)
walkPath(h, lastModule, paths) ==
    IF paths = <<>> THEN [heap |-> h, module |-> lastModule]
    ELSE IF ~MapHas(h[lastModule].modules, Head(paths))
    THEN walkPath(newChild(h, lastModule, Head(paths)), Len(h) + 1, Tail(paths))
    ELSE walkPath(h, MapGet(h[lastModule].modules, Head(paths)), Tail(paths))

BaseDir == "s"

\* paths = fileName.split("/"); paths.pop(); paths.slice(paths.indexOf(baseDir) + 1)
pathsOf(split) ==
    SubSeq(split, IndexOf(SubSeq(split, 1, Len(split) - 1), BaseDir) + 1 + 1, Len(split) - 1)

moduleFromPaths(S, paths) ==
    IF Len(paths) = 0 THEN [heap |-> S.heap, module |-> 1]
    ELSE walkPath(S.heap, 1, paths)

moduleFromFile(S, fileName) == moduleFromPaths(S, pathsOf(SplitSlash(fileName, <<"">>)))

(* Declaration collector: Prepare phase *)

\* node.members.map(m => ({name, initializer, loc: this.getLOC(m)}))
enumMembers(S, node, fileName) ==
    [i \in DOMAIN node.members |->
        [name |-> node.members[i].name,
         initializer |-> IF node.members[i].initializer = None THEN None
                         ELSE Some(resolveExpressionToType(node.members[i].initializer[1])),
         loc |-> getLOC(S, node.members[i], fileName, TRUE)]]

memberLocs(members) == [i \in DOMAIN members |-> members[i].loc]

prepareClass(S, node, fileName, name, loc, jsDoc) ==
    IF IsThrown(jsDoc) THEN Throw(Logged(S, fileName, loc))
    ELSE [Logged(S, fileName, loc) EXCEPT
            !.heap[S.currentModule].classes =
                MapSet(@, name,
                       [name |-> name, typeParameters |-> None, properties |-> <<>>,
                        methods |-> <<>>, loc |-> loc, constructor |-> None,
                        isAbstract |-> HasModifier(node, "abstract"),
                        jsDoc |-> jsDoc.opt,
                        isExported |-> HasModifier(node, "export"),
                        extends |-> None, implements |-> None])]

mergeInterface(existing, loc) == [existing EXCEPT !.loc = Append(@, loc)]

prepareInterface(S, node, fileName, loc, jsDoc) ==
    IF MapHas(Cur(S).interfaces, node.name)
    THEN [Logged(S, fileName, loc) EXCEPT
            !.heap[S.currentModule].interfaces =
                MapSet(@, node.name, mergeInterface(MapGet(@, node.name), loc))]
    ELSE IF IsThrown(jsDoc) THEN Throw(Logged(S, fileName, loc))
    ELSE [Logged(S, fileName, loc) EXCEPT
            !.heap[S.currentModule].interfaces =
                MapSet(@, node.name,
                       [name |-> node.name, typeParameters |-> None,
                        loc |-> <<loc>>, properties |-> <<>>,
                        jsDoc |-> jsDoc.opt,
                        isExported |-> HasModifier(node, "export"),
                        extends |-> None, implements |-> None])]

\* a merge that keeps only the last declaration's members
mergeEnumReplacing(existing, loc, members) ==
    [existing EXCEPT !.loc = Append(@, loc), !.members = members]

\* existing.loc.push(loc); existing.members.push(...members)
mergeEnum(existing, loc, members) ==
    [existing EXCEPT !.loc = Append(@, loc), !.members = @ \o members]

prepareEnum(S, node, fileName, loc, jsDoc, members) ==
    IF MapHas(Cur(S).enums, node.name)
    THEN IF \E i \in DOMAIN members : OptThrown(members[i].initializer)
         THEN Throw([Logged(S, fileName, loc) EXCEPT
                        !.heap[S.currentModule].enums =
                            MapSet(@, node.name, mergeEnum(MapGet(@, node.name), loc, <<>>))])
         ELSE [LogAll(Logged(S, fileName, loc), fileName, memberLocs(members)) EXCEPT
                 !.heap[S.currentModule].enums =
                     MapSet(@, node.name, mergeEnum(MapGet(@, node.name), loc, members))]
    ELSE IF (\E i \in DOMAIN members : OptThrown(members[i].initializer)) \/ IsThrown(jsDoc)
    THEN Throw(S)
    ELSE [LogAll(Logged(S, fileName, loc), fileName, memberLocs(members)) EXCEPT
            !.heap[S.currentModule].enums =
                MapSet(@, node.name,
                       [name |-> node.name,
                        const |-> "const" \in node.modifiers,
                        members |-> members,
                        loc |-> <<loc>>,
                        jsDoc |-> jsDoc.opt,
                        isExported |-> HasModifier(node, "export")])]

prepareTypeAlias(S, node, fileName, loc, jsDoc) ==
    IF IsThrown(jsDoc) THEN Throw(Logged(S, fileName, loc))
    ELSE [Logged(S, fileName, loc) EXCEPT
            !.heap[S.currentModule].types =
                MapSet(@, node.name,
                       [name |-> node.name, loc |-> loc, jsDoc |-> jsDoc.opt,
                        isExported |-> HasModifier(node, "export"),
                        value |-> None])]

\* a preparer that never finds a namespace in the cache
namespaceNeverCached(S, name) == FALSE

\* this.namespaceCache[name] ? ... : createModule(...)
namespaceCached(S, name) == name \in DOMAIN S.namespaceCache

\* the namespace branch up to the loop over the body: the namespace's Module is
\* taken from the cache or created, made current, and registered in the parent
\* and in the cache
enterNamespace(S, name, fileName, nsLoc, id) ==
    [(IF namespaceCached(S, name) THEN S
      ELSE [Logged(S, fileName, nsLoc) EXCEPT
              !.heap = Append(@, createModule(name, FALSE, nsLoc.sourceFile, TRUE))])
     EXCEPT !.currentModule = id,
            !.heap[S.currentModule].modules = MapSet(@, name, id),
            !.namespaceCache = [n \in DOMAIN @ \cup {name} |-> IF n = name THEN id ELSE @[n]]]

\* this.currentModule = currModule, reached only if the body did not throw
leaveNamespace(S, currModule) ==
    IF S.threw THEN S ELSE [S EXCEPT !.currentModule = currModule]

RECURSIVE _preparer(_, _, _)
_preparer(S, node, fileName) ==
    IF S.threw THEN S
    ELSE
    CASE node.kind = "Statements" ->
            \* for (const stmt of statements) this._preparer(stmt)
            IF node.statements = <<>> THEN S
            ELSE _preparer(_preparer(S, Head(node.statements), fileName),
                           [node EXCEPT !.statements = Tail(@)], fileName)
      [] node.kind = "ClassDeclaration" ->
            prepareClass(S, node, fileName,
                         IF node.name # None THEN node.name[1] ELSE "export default",
                         getLOC(S, node, fileName, TRUE), getJSDocData(node))
      [] node.kind = "InterfaceDeclaration" ->
            prepareInterface(S, node, fileName, getLOC(S, node, fileName, TRUE),
                             getJSDocData(node))
      [] node.kind = "EnumDeclaration" ->
            prepareEnum(S, node, fileName, getLOC(S, node, fileName, TRUE),
                        getJSDocData(node), enumMembers(S, node, fileName))
      [] node.kind = "TypeAliasDeclaration" ->
            prepareTypeAlias(S, node, fileName, getLOC(S, node, fileName, TRUE),
                             getJSDocData(node))
      [] node.kind = "ModuleDeclaration" /\ node.body # None ->
            leaveNamespace(
                _preparer(enterNamespace(S, node.name, fileName,
                                         getLOC(S, node, fileName, FALSE),
                                         IF namespaceCached(S, node.name)
                                         THEN S.namespaceCache[node.name]
                                         ELSE Len(S.heap) + 1),
                          [kind |-> "Statements", statements |-> node.body[1]], fileName),
                S.currentModule)
      [] OTHER -> S

cacheModule(S, key, m) ==
    [S EXCEPT !.heap = m.heap,
              !.currentModule = m.module,
              !.moduleCache = [f \in DOMAIN @ \cup {key} |-> IF f = key THEN m.module ELSE @[f]]]

runPreparerOnFile(S, file) ==
    _preparer(cacheModule(S, Join(file.fileName), moduleFromFile(S, file.fileName)),
              [kind |-> "Statements", statements |-> file.statements], file.fileName)

(* Declaration collector: Visit phase *)

\* an assignment that is dropped
setTypeValueDropped(S, name, value) == S

\* an assignment that creates the declaration when it is missing
setTypeValueUpsert(S, name, value) ==
    IF IsThrown(value) THEN Throw(S)
    ELSE [S EXCEPT !.heap[S.currentModule].types =
            MapSet(@, name, [name |-> name, value |-> Some(value)])]

\* decl.value = value, where decl = this.currentModule.types.get(name)
setTypeValue(S, name, value) ==
    IF ~MapHas(Cur(S).types, name) \/ IsThrown(value)
    THEN Throw(S)                                  \* decl is undefined: the assignment throws
    ELSE [S EXCEPT !.heap[S.currentModule].types =
            MapSet(@, name, [MapGet(@, name) EXCEPT !.value = Some(value)])]

handleTypeDeclaration(S, node) ==
    IF S.currentModule = 0 THEN Throw(S)           \* undefined.types
    ELSE setTypeValue(S, node.name, resolveType(node.type))

\* items.map(f): throws as soon as one call throws
mapped(items) == IF AnyThrown(items) THEN Thrown ELSE [items |-> items]
optional(r) == IF IsThrown(r) THEN Thrown ELSE [opt |-> Some(r)]
optionalItems(items) == IF AnyThrown(items) THEN Thrown ELSE [opt |-> Some(items)]

\* node.typeParameters && node.typeParameters.map(p => this.resolveGenerics(p))
resolveTypeParameters(node) ==
    IF node.typeParameters = None THEN [opt |-> None]
    ELSE optionalItems([i \in DOMAIN node.typeParameters[1] |->
                            resolveGenerics(node.typeParameters[1][i])])

\* node.parameters.map(p => this.resolveParameter(p))
resolveParameters(node) ==
    mapped([i \in DOMAIN node.parameters |-> resolveParameter(node.parameters[i])])

functionSignature(node, parameters, typeParameters, returnType, loc, jsDoc) ==
    IF IsThrown(parameters) \/ IsThrown(typeParameters) \/ IsThrown(returnType)
       \/ IsThrown(jsDoc)
    THEN Thrown
    ELSE [name |-> node.name,
          parameters |-> parameters.items,
          typeParameters |-> typeParameters.opt,
          returnType |-> returnType.opt,
          loc |-> loc,
          jsDoc |-> jsDoc.opt]

\* an overload that takes the place of the signatures recorded before
pushSignatureReplacing(fn, obj) == [fn EXCEPT !.signatures = <<obj>>]

\* fn.signatures.push(obj)
pushSignature(fn, obj) == [fn EXCEPT !.signatures = Append(@, obj)]

addFunction(S, fileName, name, obj) ==
    IF IsThrown(obj) THEN Throw(S)
    ELSE IF MapHas(Cur(S).functions, name)
    THEN [Logged(S, fileName, obj.loc) EXCEPT
            !.heap[S.currentModule].functions =
                MapSet(@, name, pushSignature(MapGet(@, name), obj))]
    ELSE [Logged(S, fileName, obj.loc) EXCEPT
            !.heap[S.currentModule].functions =
                MapSet(@, name, [name |-> name, signatures |-> <<obj>>,
                                 loc |-> obj.loc, jsDoc |-> obj.jsDoc])]

handleFunctionDeclaration(S, node, fileName) ==
    IF S.currentModule = 0 THEN Throw(S)           \* undefined.functions
    ELSE addFunction(S, fileName,
                     IF node.name # None THEN node.name[1] ELSE "export default",
                     functionSignature(node, resolveParameters(node),
                                       resolveTypeParameters(node), resolveReturnType(node),
                                       getLOC(S, node, fileName, TRUE), getJSDocData(node)))

TruncateAt == 256

\* a truncation that starts at 256 characters instead of above
constantContentFrom256(text) ==
    IF text # <<>> /\ Len(text) >= TruncateAt
    THEN SubSeq(text, 1, TruncateAt) \o <<".", ".", ".">>
    ELSE text

\* text && text.length > 256 ? text.slice(0, 256) + "..." : text
constantContent(text) ==
    IF text # <<>> /\ Len(text) > TruncateAt
    THEN SubSeq(text, 1, TruncateAt) \o <<".", ".", ".">>
    ELSE text

constantDecl(declaration, loc, type, jsDoc) ==
    IF IsThrown(type) \/ IsThrown(jsDoc) THEN Thrown
    ELSE [name |-> declaration.name,
          loc |-> loc,
          type |-> type.opt,
          content |-> constantContent(declaration.initializer[1].text),
          jsDoc |-> jsDoc.opt]

\* this.currentModule.constants.push(...declarations)
pushConstants(S, fileName, declarations) ==
    IF AnyThrown(declarations) THEN Throw(S)
    ELSE [LogAll(S, fileName, memberLocs(declarations)) EXCEPT
            !.heap[S.currentModule].constants = @ \o declarations]

constantDecls(S, node, fileName, withInitializer) ==
    [i \in DOMAIN withInitializer |->
        constantDecl(withInitializer[i], getLOC(S, withInitializer[i], fileName, TRUE),
                     resolveOptType(withInitializer[i].type), getJSDocData(node))]

handleVariableDeclaration(S, node, fileName) ==
    IF S.currentModule = 0 THEN Throw(S)     \* getLOC or constants.push on undefined
    ELSE pushConstants(S, fileName,
            constantDecls(S, node, fileName,
                          SelectSeq(node.declarations, LAMBDA d : d.initializer # None)))

Flag(member, keyword) == IF keyword \in member.modifiers THEN Some(TRUE) ELSE None

\* (member.type && this.resolveType(member.type)) ||
\* (member.initializer && this.resolveExpressionToType(member.initializer))
propertyType(member) ==
    IF member.type # None THEN resolveOptType(member.type)
    ELSE IF member.initializer = None THEN [opt |-> None]
    ELSE optional(resolveExpressionToType(member.initializer[1]))

methodSignature(returnType, typeParameters, parameters, loc, jsDoc) ==
    [returnType |-> returnType.opt,
     typeParameters |-> typeParameters.opt,
     parameters |-> parameters.items,
     loc |-> loc, jsDoc |-> jsDoc.opt]

\* methods.has(methodName) ? push a signature : methods.set(methodName, {...})
addMethod(methods, member, loc, jsDoc, sig) ==
    IF MapHas(methods, member.name)
    THEN MapSet(methods, member.name,
                [MapGet(methods, member.name) EXCEPT !.signatures = Append(@, sig)])
    ELSE MapSet(methods, member.name,
                [name |-> member.name, loc |-> loc,
                 isPrivate |-> Flag(member, "private"),
                 isProtected |-> Flag(member, "protected"),
                 isStatic |-> Flag(member, "static"),
                 isAbstract |-> Flag(member, "abstract"),
                 jsDoc |-> jsDoc.opt, signatures |-> <<sig>>])

setGetter(methods, member, loc, jsDoc, returnType) ==
    MapSet(methods, member.name,
           [name |-> member.name,
            signatures |-> <<[returnType |-> returnType.opt, loc |-> loc,
                              jsDoc |-> jsDoc.opt]>>,
            isPrivate |-> Flag(member, "private"),
            isProtected |-> Flag(member, "protected"),
            isStatic |-> Flag(member, "static"),
            isAbstract |-> Flag(member, "abstract"),
            loc |-> loc, jsDoc |-> jsDoc.opt, isGetter |-> TRUE])

setSetter(methods, member, loc, jsDoc, returnType, parameters) ==
    MapSet(methods, member.name,
           [name |-> member.name,
            signatures |-> <<[returnType |-> returnType.opt,
                              parameters |-> parameters.items,
                              loc |-> loc, jsDoc |-> jsDoc.opt]>>,
            isPrivate |-> Flag(member, "private"),
            isProtected |-> Flag(member, "protected"),
            isStatic |-> Flag(member, "static"),
            isAbstract |-> Flag(member, "abstract"),
            loc |-> loc, jsDoc |-> jsDoc.opt, isSetter |-> TRUE])

\* one iteration of `for (const member of node.members)`; A carries res, the
\* local `methods` Map, the Locs made and whether an exception was thrown
classMemberWith(A, member, loc, jsDoc, returnType, typeParameters, parameters, type) ==
    CASE member.kind = "PropertyDeclaration" ->
            IF IsThrown(type) \/ IsThrown(jsDoc) THEN [A EXCEPT !.threw = TRUE]
            ELSE [A EXCEPT !.locs = Append(@, loc),
                           !.res.properties =
                        Append(@, [name |-> member.name, type |-> type.opt, loc |-> loc,
                                   isOptional |-> member.questionToken,
                                   isPrivate |-> Flag(member, "private"),
                                   isProtected |-> Flag(member, "protected"),
                                   isStatic |-> Flag(member, "static"),
                                   isReadonly |-> Flag(member, "readonly"),
                                   isAbstract |-> Flag(member, "abstract"),
                                   jsDoc |-> jsDoc.opt])]
      [] member.kind = "MethodDeclaration" ->
            IF IsThrown(returnType) \/ IsThrown(typeParameters) \/ IsThrown(parameters)
               \/ IsThrown(jsDoc)
            THEN [A EXCEPT !.threw = TRUE]
            ELSE [A EXCEPT !.locs = Append(@, loc),
                           !.methods = addMethod(@, member, loc, jsDoc,
                                methodSignature(returnType, typeParameters, parameters,
                                                loc, jsDoc))]
      [] member.kind = "GetAccessor" ->
            IF IsThrown(returnType) \/ IsThrown(jsDoc) THEN [A EXCEPT !.threw = TRUE]
            ELSE [A EXCEPT !.locs = Append(@, loc),
                           !.methods = setGetter(@, member, loc, jsDoc, returnType)]
      [] member.kind = "SetAccessor" ->
            IF IsThrown(returnType) \/ IsThrown(parameters) \/ IsThrown(jsDoc)
            THEN [A EXCEPT !.threw = TRUE]
            ELSE [A EXCEPT !.locs = Append(@, loc),
                           !.methods = setSetter(@, member, loc, jsDoc, returnType, parameters)]
      [] member.kind = "Constructor" ->
            IF IsThrown(parameters) THEN [A EXCEPT !.threw = TRUE]
            ELSE [A EXCEPT !.res.constructor = Some([parameters |-> parameters.items])]
      [] OTHER -> A

classMember(S, A, member, fileName) ==
    classMemberWith(A, member, getLOC(S, member, fileName, TRUE), getJSDocData(member),
                    resolveReturnType(member), resolveTypeParameters(member),
                    resolveParameters(member), propertyType(member))

RECURSIVE classMembers(_, _, _, _)
classMembers(S, A, members, fileName) ==
    IF A.threw \/ members = <<>> THEN A
    ELSE classMembers(S, classMember(S, A, Head(members), fileName), Tail(members), fileName)

\* heritageClauses.find(clause => clause.token === token)
findClause(clauses, token) ==
    IF \E i \in DOMAIN clauses : clauses[i].token = token
    THEN Some(clauses[CHOOSE i \in DOMAIN clauses :
                        clauses[i].token = token
                        /\ \A j \in DOMAIN clauses : clauses[j].token = token => i <= j])
    ELSE None

\* res.extends = ...; res.implements = ...  (R is res and whether a throw cut it short)
applyHeritage(res, ext, impl) ==
    IF OptThrown(ext) THEN [res |-> res, threw |-> TRUE]
    ELSE IF impl # None /\ AnyThrown(impl[1])
    THEN [res |-> [res EXCEPT !.extends = ext], threw |-> TRUE]
    ELSE [res |-> [res EXCEPT !.extends = ext, !.implements = impl], threw |-> FALSE]

extendsOf(clause) ==
    IF clause = None THEN None ELSE Some(resolveHeritage(clause[1].types[1]))

classImplementsOf(clause) ==
    IF clause = None THEN None
    ELSE Some([i \in DOMAIN clause[1].types |-> resolveHeritage(clause[1].types[i])])

interfaceImplementsOf(clause) ==
    IF clause = None THEN None
    ELSE Some([i \in DOMAIN clause[1].types |-> resolveType(clause[1].types[i])])

putClass(S, fileName, name, ls, R) ==
    [LogAll(S, fileName, ls) EXCEPT
        !.heap[S.currentModule].classes = MapSet(@, name, R.res),
        !.threw = R.threw]

\* res.methods.push(...methods.values())
pushMethods(A) == [A.res EXCEPT !.methods = @ \o MapValues(A.methods)]

finishClass(S, node, fileName, name, A) ==
    IF A.threw THEN putClass(S, fileName, name, A.locs, [res |-> A.res, threw |-> TRUE])
    ELSE IF node.heritageClauses = None
    THEN putClass(S, fileName, name, A.locs, [res |-> pushMethods(A), threw |-> FALSE])
    ELSE putClass(S, fileName, name, A.locs,
                  applyHeritage(pushMethods(A),
                        extendsOf(findClause(node.heritageClauses[1], "extends")),
                        classImplementsOf(findClause(node.heritageClauses[1], "implements"))))

visitClass(S, node, fileName, name, typeParameters) ==
    IF ~MapHas(Cur(S).classes, name) \/ IsThrown(typeParameters)
    THEN Throw(S)                                  \* res is undefined
    ELSE finishClass(S, node, fileName, name,
            classMembers(S, [res |-> [MapGet(Cur(S).classes, name) EXCEPT
                                        !.typeParameters = typeParameters.opt],
                             methods |-> <<>>, locs |-> <<>>, threw |-> FALSE],
                         node.members, fileName))

handleClassDeclaration(S, node, fileName) ==
    IF S.currentModule = 0 THEN Throw(S)           \* undefined.classes
    ELSE visitClass(S, node, fileName,
                    IF node.name # None /\ node.name[1] # "" THEN node.name[1]
                    ELSE "export default",
                    resolveTypeParameters(node))

putInterface(S, name, R) ==
    [S EXCEPT !.heap[S.currentModule].interfaces = MapSet(@, name, R.res),
              !.threw = R.threw]

finishInterface(S, node, res, props) ==
    IF AnyThrown(props) THEN putInterface(S, node.name, [res |-> res, threw |-> TRUE])
    ELSE IF node.heritageClauses = None
    THEN putInterface(S, node.name,
                      [res |-> [res EXCEPT !.properties = @ \o props], threw |-> FALSE])
    ELSE putInterface(S, node.name,
                      applyHeritage([res EXCEPT !.properties = @ \o props],
                            extendsOf(findClause(node.heritageClauses[1], "extends")),
                            interfaceImplementsOf(findClause(node.heritageClauses[1],
                                                             "implements"))))

visitInterface(S, node, typeParameters) ==
    IF ~MapHas(Cur(S).interfaces, node.name) \/ IsThrown(typeParameters)
    THEN Throw(S)                                  \* res is undefined
    ELSE finishInterface(S, node,
            [MapGet(Cur(S).interfaces, node.name) EXCEPT
                !.typeParameters = typeParameters.opt],
            [i \in DOMAIN node.members |-> resolveProperty(node.members[i])])

handleInterfaceDeclaration(S, node) ==
    IF S.currentModule = 0 THEN Throw(S)           \* undefined.interfaces
    ELSE visitInterface(S, node, resolveTypeParameters(node))

\* this.currentModule = this.namespaceCache[name]
openNamespace(S, name) ==
    [S EXCEPT !.currentModule =
        IF name \in DOMAIN S.namespaceCache THEN S.namespaceCache[name] ELSE 0]

RECURSIVE _visitor(_, _, _)
_visitor(S, node, fileName) ==
    IF S.threw THEN S
    ELSE
    CASE node.kind = "Statements" ->
            \* for (const stmt of statements) this._visitor(stmt)
            IF node.statements = <<>> THEN S
            ELSE _visitor(_visitor(S, Head(node.statements), fileName),
                          [node EXCEPT !.statements = Tail(@)], fileName)
      [] node.kind = "VariableStatement" /\ "export" \in node.modifiers ->
            handleVariableDeclaration(S, node, fileName)
      [] node.kind = "ClassDeclaration" -> handleClassDeclaration(S, node, fileName)
      [] node.kind = "InterfaceDeclaration" -> handleInterfaceDeclaration(S, node)
      [] node.kind = "FunctionDeclaration" /\ "export" \in node.modifiers ->
            handleFunctionDeclaration(S, node, fileName)
      [] node.kind = "TypeAliasDeclaration" -> handleTypeDeclaration(S, node)
      [] node.kind = "ModuleDeclaration" /\ node.body # None ->
            leaveNamespace(_visitor(openNamespace(S, node.name),
                                    [kind |-> "Statements", statements |-> node.body[1]],
                                    fileName),
                           S.currentModule)
      [] OTHER -> S

\* this.currentModule = this.moduleCache[file.fileName]
openFile(S, key) ==
    [S EXCEPT !.currentModule = IF key \in DOMAIN S.moduleCache THEN S.moduleCache[key] ELSE 0]

runOnFile(S, file) ==
    _visitor(openFile(S, Join(file.fileName)),
             [kind |-> "Statements", statements |-> file.statements], file.fileName)

(* Serializer *)

\* clone = {...module} with the Maps replaced by arrays of their values
moduleClone(m, children) ==
    IF AnyThrown(children) THEN [thrown |-> "RangeError"]
    ELSE [name |-> m.name, isGlobal |-> m.isGlobal, repository |-> m.repository,
          isNamespace |-> m.isNamespace,
          constants |-> m.constants,
          modules |-> children,
          classes |-> MapValues(m.classes),
          interfaces |-> MapValues(m.interfaces),
          types |-> MapValues(m.types),
          enums |-> MapValues(m.enums),
          functions |-> MapValues(m.functions)]

\* a serialiser that leaves the child modules out
moduleToJSONShallow(h, module, depth) == moduleClone(h[module], <<>>)

\* `depth` counts the calls on the stack: on a cyclic module graph the recursion
\* never ends and the engine raises a RangeError (stack overflow)
RECURSIVE moduleToJSON(_, _, _)
moduleToJSON(h, module, depth) ==
    IF depth > Len(h) THEN [thrown |-> "RangeError"]
    ELSE moduleClone(h[module],
                     [i \in DOMAIN h[module].modules |->
                        moduleToJSON(h, h[module].modules[i].v, depth + 1)])

\* readme, repository and homepage are the constructor's settings, passed through;
\* settings.repository is taken to be the root module's repository
jsonRoot(S, module) ==
    IF IsThrown(module) THEN module
    ELSE [readme |-> None, repository |-> S.heap[1].repository, homepage |-> None,
          module |-> module]

toJSON(S) == jsonRoot(S, moduleToJSON(S.heap, 1, 1))

-----------------------------------------------------------------------------
(* Syntax trees handed to the extractor by the compiler front end *)

NoDoc == <<>>

Sym(name, flags, parentEnum) ==
    [isString |-> FALSE, name |-> name, flags |-> flags, parentEnum |-> parentEnum]

Keyword(kind, text) == [kind |-> kind, text |-> text]

TypeRef(name, symbol, typeArguments, text) ==
    [kind |-> "TypeReference",
     typeName |-> [text |-> name, qualified |-> FALSE, left |-> "", right |-> name,
                   symbol |-> symbol],
     typeArguments |-> typeArguments, text |-> text]

QualifiedRef(left, right, symbol) ==
    [kind |-> "TypeReference",
     typeName |-> [text |-> left \o "." \o right, qualified |-> TRUE, left |-> left,
                   right |-> right, symbol |-> symbol],
     typeArguments |-> None, text |-> left \o "." \o right]

Param(name, type) ==
    [nameIsIdentifier |-> TRUE, name |-> name, questionToken |-> FALSE,
     dotDotDotToken |-> FALSE, type |-> type, initializer |-> None,
     paramTagComment |-> None]

Expr(kind, text) == [kind |-> kind, text |-> text]

PropertySignature(name, type) ==
    [kind |-> "PropertySignature", name |-> name, type |-> type, questionToken |-> FALSE,
     modifiers |-> {}, parameters |-> <<>>, pos |-> 0, end |-> 1]

\* index, method, call and construct signatures and accessors of a type literal
\* or interface: all have a parameter list and an optional type
SignatureMember(kind, name, parameters, type) ==
    [kind |-> kind, name |-> name, type |-> type, questionToken |-> FALSE,
     modifiers |-> {}, parameters |-> parameters, pos |-> 0, end |-> 1]

EnumMember(name, line) ==
    [name |-> name, initializer |-> None, line |-> line, character |-> 2]

EnumDeclaration(name, line, members) ==
    [kind |-> "EnumDeclaration", name |-> name, modifiers |-> {}, members |-> members,
     line |-> line, character |-> 0, jsDoc |-> NoDoc]

TypeAliasDeclaration(name, line, type) ==
    [kind |-> "TypeAliasDeclaration", name |-> name, modifiers |-> {"export"},
     type |-> type, line |-> line, character |-> 0, jsDoc |-> NoDoc]

InterfaceDeclaration(name, line, members) ==
    [kind |-> "InterfaceDeclaration", name |-> name, modifiers |-> {},
     typeParameters |-> None, members |-> members, heritageClauses |-> None,
     line |-> line, character |-> 0, jsDoc |-> NoDoc]

FunctionDeclaration(name, line, modifiers, parameters, type) ==
    [kind |-> "FunctionDeclaration", name |-> Some(name), modifiers |-> modifiers,
     typeParameters |-> None, parameters |-> parameters, type |-> type,
     inferred |-> None, line |-> line, character |-> 0, jsDoc |-> NoDoc]

VariableDeclaration(name, line, type, initializer) ==
    [name |-> name, type |-> type, initializer |-> initializer, line |-> line,
     character |-> 13]

VariableStatement(modifiers, declarations) ==
    [kind |-> "VariableStatement", modifiers |-> modifiers, declarations |-> declarations,
     jsDoc |-> NoDoc]

ClassMember(kind, name, line, modifiers, parameters, type) ==
    [kind |-> kind, name |-> name, modifiers |-> modifiers, type |-> type,
     initializer |-> None, questionToken |-> FALSE, typeParameters |-> None,
     parameters |-> parameters, inferred |-> None, line |-> line, character |-> 4,
     jsDoc |-> NoDoc]

ClassDeclaration(name, line, modifiers, members, heritageClauses) ==
    [kind |-> "ClassDeclaration", name |-> name, modifiers |-> modifiers,
     typeParameters |-> None, members |-> members, heritageClauses |-> heritageClauses,
     line |-> line, character |-> 0, jsDoc |-> NoDoc]

HeritageType(expression, text) ==
    [kind |-> "ExpressionWithTypeArguments", expression |-> expression,
     typeArguments |-> None, text |-> text]

ModuleDeclaration(name, line, body) ==
    [kind |-> "ModuleDeclaration", name |-> name, body |-> body, line |-> line,
     character |-> 0]

ImportDeclaration == [kind |-> "ImportDeclaration"]

StringT == Keyword("StringKeyword", "string")
NumberT == Keyword("NumberKeyword", "number")
VoidT == Keyword("VoidKeyword", "void")

-----------------------------------------------------------------------------
(* The source files of the project under extraction *)

BSymbol == Sym("B", {"Class"}, None)

\* s/a.ts
\*   0  enum Color { Red }
\*   1  enum Color { Blue }
\*   2  namespace N {
\*   3    export function f() {}
\*   4    export type T = string }
\*   5  export const k = 5, u;
\*   6  import ...
\*   7  class B { m(): void {} }
FileA ==
    [fileName |-> <<"s", "/", "a", ".", "t", "s">>,
     statements |-> <<
        EnumDeclaration("Color", 0, <<EnumMember("Red", 0)>>),
        EnumDeclaration("Color", 1, <<EnumMember("Blue", 1)>>),
        ModuleDeclaration("N", 2, Some(<<
            FunctionDeclaration("f", 3, {"export"}, <<>>, None),
            TypeAliasDeclaration("T", 4, StringT)>>)),
        VariableStatement({"export"}, <<
            VariableDeclaration("k", 5, None, Some(Expr("NumericLiteral", <<"5">>))),
            VariableDeclaration("u", 5, None, None)>>),
        ImportDeclaration,
        ClassDeclaration(Some("B"), 7, {}, <<
            ClassMember("MethodDeclaration", "m", 7, {}, <<>>, Some(VoidT))>>, None)>>]

\* s/b.ts
\*   0  namespace N {
\*   1    export function f(): void {}
\*   2    class K { 3 get x() {}  4 set x(v) {}  5 m(): void;  6 m(a: string): void {} } }
\*   7  interface I { p: string }
\*   8  interface I { q: number }
\*   9  export type A = B
\*  10  export class B implements I { m(): void {} }
FileB ==
    [fileName |-> <<"s", "/", "b", ".", "t", "s">>,
     statements |-> <<
        ModuleDeclaration("N", 0, Some(<<
            FunctionDeclaration("f", 1, {"export"}, <<>>, Some(VoidT)),
            ClassDeclaration(Some("K"), 2, {}, <<
                ClassMember("GetAccessor", "x", 3, {}, <<>>, None),
                ClassMember("SetAccessor", "x", 4, {}, <<Param("v", None)>>, None),
                ClassMember("MethodDeclaration", "m", 5, {}, <<>>, Some(VoidT)),
                ClassMember("MethodDeclaration", "m", 6, {"static"},
                            <<Param("a", Some(StringT))>>, Some(VoidT))>>, None)>>)),
        InterfaceDeclaration("I", 7, <<PropertySignature("p", Some(StringT))>>),
        InterfaceDeclaration("I", 8, <<PropertySignature("q", Some(NumberT))>>),
        TypeAliasDeclaration("A", 9, TypeRef("B", Some(BSymbol), None, "B")),
        ClassDeclaration(Some("B"), 10, {"export"}, <<
            ClassMember("MethodDeclaration", "m", 10, {}, <<>>, Some(VoidT))>>,
            Some(<<[token |-> "implements",
                    types |-> <<HeritageType([kind |-> "Identifier", text |-> "I"], "I")>>]>>))
     >>]

\* s/X/c.ts
\*   0  enum Color { Green }
\*   1  export function g(): void;
\*   2  export function g(a: string): void {}
\*   3  function h() {}
\*   4  abstract class K { 5 bar = 5;  6 constructor(a: number) {}  7 get m() {}  7 static m() {} }
\*   8  namespace N { 9 enum Color { Cyan } }
FileC ==
    [fileName |-> <<"s", "/", "X", "/", "c", ".", "t", "s">>,
     statements |-> <<
        EnumDeclaration("Color", 0, <<EnumMember("Green", 0)>>),
        FunctionDeclaration("g", 1, {"export"}, <<>>, Some(VoidT)),
        FunctionDeclaration("g", 2, {"export"}, <<Param("a", Some(StringT))>>, Some(VoidT)),
        FunctionDeclaration("h", 3, {}, <<>>, None),
        ClassDeclaration(Some("K"), 4, {"abstract"}, <<
            [ClassMember("PropertyDeclaration", "bar", 5, {}, <<>>, None)
                EXCEPT !.initializer = Some(Expr("NumericLiteral", <<"5">>))],
            ClassMember("Constructor", "constructor", 6, {}, <<Param("a", Some(NumberT))>>, None),
            ClassMember("GetAccessor", "m", 7, {}, <<>>, None),
            ClassMember("MethodDeclaration", "m", 7, {"static"}, <<>>, None)>>, None),
        ModuleDeclaration("N", 8, Some(<<
            EnumDeclaration("Color", 9, <<EnumMember("Cyan", 9)>>)>>))
     >>]

\* s/d.ts
\*   0  namespace X { 1 export type U = number }
\*   2  namespace A { 3 namespace A { 4 enum E { P, Q } } }
\*   5  declare module "m";
FileD ==
    [fileName |-> <<"s", "/", "d", ".", "t", "s">>,
     statements |-> <<
        ModuleDeclaration("X", 0, Some(<<TypeAliasDeclaration("U", 1, NumberT)>>)),
        ModuleDeclaration("A", 2, Some(<<
            ModuleDeclaration("A", 3, Some(<<
                EnumDeclaration("E", 4, <<EnumMember("P", 4), EnumMember("Q", 4)>>)>>))>>)),
        ModuleDeclaration("m", 5, None)
     >>]

Files == <<FileA, FileB, FileC, FileD>>

\* what the reference index may know when the extractor is constructed
ReferenceIndexes ==
    { [known |-> {}, external |-> {}, defaults |-> {}],
      [known |-> {"B", "I", "Color"}, external |-> {"I"}, defaults |-> {"default"}] }

Repositories == {None, Some("R")}

MaxOps == 4

-----------------------------------------------------------------------------
(* The extractor as a state machine: construction, then any sequence of    *)
(* runPreparerOnFile, runOnFile and toJSON calls made by the driver        *)

NoRuns == [regular |-> TRUE, prepared |-> {}, visited |-> {}]

Irregular == [regular |-> FALSE, prepared |-> {}, visited |-> {}]

\* the pass after one more run: Prepare runs of distinct files come first, then
\* Visit runs of distinct prepared files; anything else ends the pass
Recorded(h, op, file, threw) ==
    IF ~h.regular \/ threw THEN Irregular
    ELSE IF op = "runPreparerOnFile"
    THEN IF file \notin h.prepared /\ h.visited = {}
         THEN [h EXCEPT !.prepared = @ \cup {file}] ELSE Irregular
    ELSE IF file \in h.prepared /\ file \notin h.visited
         THEN [h EXCEPT !.visited = @ \cup {file}] ELSE Irregular

Init ==
    /\ \E repository \in Repositories :
            heap = <<createModule("Global", TRUE, repository, FALSE)>>
    /\ moduleCache = <<>>
    /\ namespaceCache = <<>>
    /\ currentModule = 1
    /\ references \in ReferenceIndexes
    /\ locs = {}
    /\ arg = [op |-> "constructor"]
    /\ ret = [threw |-> FALSE]
    /\ ops = 0
    /\ history = NoRuns

Commit(S) ==
    /\ heap' = S.heap
    /\ moduleCache' = S.moduleCache
    /\ namespaceCache' = S.namespaceCache
    /\ currentModule' = S.currentModule
    /\ locs' = S.locs
    /\ ret' = [threw |-> S.threw]
    /\ ops' = ops + 1
    /\ history' = Recorded(history, arg'.op, arg'.file, S.threw)
    /\ UNCHANGED references

RunPreparerOnFile(i) ==
    /\ ops < MaxOps
    /\ arg' = [op |-> "runPreparerOnFile", file |-> i]
    /\ Commit(runPreparerOnFile(State, Files[i]))

RunOnFile(i) ==
    /\ ops < MaxOps
    /\ arg' = [op |-> "runOnFile", file |-> i]
    /\ Commit(runOnFile(State, Files[i]))

ToJSON ==
    /\ ops < MaxOps
    /\ arg' = [op |-> "toJSON"]
    /\ LET json == toJSON(State)
       IN  ret' = [threw |-> IsThrown(json), value |-> json]
    /\ ops' = ops + 1
    /\ UNCHANGED <<heap, moduleCache, namespaceCache, currentModule, references, locs,
                   history>>

Next ==
    \/ \E i \in DOMAIN Files : RunPreparerOnFile(i)
    \/ \E i \in DOMAIN Files : RunOnFile(i)
    \/ ToJSON

Spec == Init /\ [][Next]_vars

-----------------------------------------------------------------------------
(* Single calls of the type resolver on a fresh extractor: the inputs are    *)
(* drawn by the initial predicate, one action per method applies it          *)

MaxTypeDepth == 2

Keywords ==
    { Keyword("NumberKeyword", "number"), Keyword("StringKeyword", "string"),
      Keyword("BooleanKeyword", "boolean"), Keyword("TrueKeyword", "true"),
      Keyword("FalseKeyword", "false"), Keyword("UndefinedKeyword", "undefined"),
      Keyword("NullKeyword", "null"), Keyword("VoidKeyword", "void"),
      Keyword("AnyKeyword", "any"), Keyword("UnknownKeyword", "unknown") }

Literals ==
    { Keyword("NumericLiteral", "1"), Keyword("BigIntLiteral", "1n"),
      Keyword("StringLiteral", "\"a\"") }

\* syntax the resolver has no branch for
OtherSyntax ==
    { Keyword("NeverKeyword", "never"), Keyword("ObjectKeyword", "object"),
      Keyword("SymbolKeyword", "symbol"), Keyword("BigIntKeyword", "bigint"),
      Keyword("ConditionalType", "A extends B ? C : D"),
      Keyword("MappedType", "{ [K in A]: B }"),
      Keyword("IndexedAccessType", "A[B]"), Keyword("TypeQuery", "typeof a"),
      Keyword("TypePredicate", "a is B"),
      Keyword("ConstructorType", "new () => A"),
      Keyword("PrefixUnaryExpression", "-1") }

Symbols ==
    { BSymbol, Sym("Zed", {"Class"}, None), Sym("T", {"TypeParameter"}, None),
      Sym("Red", {"EnumMember"}, Some("Color")), Sym("P", {"EnumMember"}, Some("E")),
      Sym("Q", {"EnumMember"}, None), Sym("unknown", {}, None),
      StringSymbol("B"), StringSymbol("Zed") }

ThisType(symbol) == [kind |-> "ThisType", symbol |-> symbol, text |-> "this"]

LiteralType(literal) == [kind |-> "LiteralType", literal |-> literal, text |-> literal.text]

TypeLiteral(members, text) == [kind |-> "TypeLiteral", members |-> members, text |-> text]

References ==
    { TypeRef(sym.name, Some(sym), None, sym.name) : sym \in {x \in Symbols : ~x.isString} }
    \cup { TypeRef("default", None, None, "default"), TypeRef("Foo", None, None, "Foo"),
           QualifiedRef("NS", "B", Some(Sym("unknown", {}, None))),
           QualifiedRef("NS", "Zed", None),
           ThisType(None), ThisType(Some(BSymbol)) }

LeafTypes ==
    Keywords \cup Literals \cup OtherSyntax \cup References
    \cup { LiteralType(l) : l \in Literals \cup {Keyword("NullKeyword", "null"),
                                                 Keyword("PrefixUnaryExpression", "-1")} }
    \cup { TypeLiteral(<<>>, "{}"),
           TypeLiteral(<<PropertySignature("p", None)>>, "{ p }"),
           [kind |-> "TupleType", elements |-> <<>>, text |-> "[]"] }

\* the type nodes that have t as a child
Enclosing(t) ==
    { [kind |-> "ArrayType", elementType |-> t, text |-> t.text \o "[]"],
      [kind |-> "ParenthesizedType", type |-> t, text |-> "(" \o t.text \o ")"],
      [kind |-> "TypeOperator", operator |-> "KeyOfKeyword", type |-> t,
       text |-> "keyof " \o t.text],
      [kind |-> "UnionType", types |-> <<t, StringT>>, text |-> t.text \o " | string"],
      [kind |-> "TupleType", elements |-> <<t, NumberT>>,
       text |-> "[" \o t.text \o ", number]"],
      [kind |-> "FunctionType", typeParameters |-> None,
       parameters |-> <<Param("a", Some(t))>>, type |-> t,
       text |-> "(a: " \o t.text \o ") => " \o t.text],
      TypeRef("B", Some(BSymbol), Some(<<t>>), "B<" \o t.text \o ">"),
      TypeLiteral(<<PropertySignature("p", Some(t))>>, "{ p: " \o t.text \o " }"),
      TypeLiteral(<<SignatureMember("IndexSignature", "",
                                    <<Param("key", Some(StringT))>>, Some(t))>>,
                  "{ [key: string]: " \o t.text \o " }"),
      TypeLiteral(<<SignatureMember("MethodSignature", "foo", <<>>, Some(t))>>,
                  "{ foo(): " \o t.text \o " }"),
      TypeLiteral(<<SignatureMember("MethodSignature", "foo",
                                    <<Param("a", Some(t))>>, Some(t))>>,
                  "{ foo(a: " \o t.text \o "): " \o t.text \o " }"),
      TypeLiteral(<<SignatureMember("CallSignature", "", <<Param("a", Some(t))>>, None)>>,
                  "{ (a: " \o t.text \o ") }"),
      TypeLiteral(<<SignatureMember("ConstructSignature", "", <<>>, Some(t))>>,
                  "{ new (): " \o t.text \o " }") }

Operators ==
    { [kind |-> "TypeOperator", operator |-> op, type |-> StringT, text |-> "op string"] :
        op \in {"UniqueKeyword", "ReadonlyKeyword"} }
    \cup { [kind |-> "IntersectionType", types |-> <<StringT, NumberT>>,
            text |-> "string & number"] }

\* the nodes nested deeper than one level: every enclosing form around a few
\* leaves, one of each way a leaf resolves
CoreTypes ==
    { StringT, Keyword("ConditionalType", "A extends B ? C : D"),
      TypeRef("Zed", Some(Sym("Zed", {"Class"}, None)), None, "Zed"),
      TypeRef("P", Some(Sym("P", {"EnumMember"}, Some("E"))), None, "P"),
      TypeLiteral(<<PropertySignature("p", None)>>, "{ p }") }

RECURSIVE NestedTypes(_)
NestedTypes(depth) ==
    IF depth = 0 THEN CoreTypes
    ELSE CoreTypes \cup UNION { Enclosing(t) : t \in NestedTypes(depth - 1) }

TypeNodes(depth) ==
    LeafTypes \cup Operators
    \cup UNION { Enclosing(t) : t \in LeafTypes }
    \cup UNION { Enclosing(t) : t \in NestedTypes(depth - 1) }

TypeInputs == TypeNodes(MaxTypeDepth)

SymbolInputs ==
    { [op |-> "resolveSymbol", symbol |-> sym, typeParameters |-> tp, moduleName |-> mn] :
        sym \in Symbols,
        tp \in {None, Some(<<[name |-> "string", kind |-> "STRING"]>>)},
        mn \in {None, Some("NS")} }

Pending == [pending |-> TRUE]

Fresh ==
    /\ \E repository \in Repositories :
            heap = <<createModule("Global", TRUE, repository, FALSE)>>
    /\ moduleCache = <<>>
    /\ namespaceCache = <<>>
    /\ currentModule = 1
    /\ locs = {}
    /\ ret = Pending
    /\ ops = 0
    /\ history = NoRuns

InitType ==
    /\ Fresh
    /\ heap[1].repository = None
    /\ references \in ReferenceIndexes
    /\ arg \in {[op |-> "resolveType", type |-> t] : t \in TypeInputs} \cup SymbolInputs

Returned(value) == [threw |-> IsThrown(value), value |-> value]

ResolveType ==
    /\ arg.op = "resolveType" /\ ret = Pending
    /\ ret' = Returned(resolveType(arg.type))
    /\ UNCHANGED <<heap, moduleCache, namespaceCache, currentModule, references, locs,
                   arg, ops, history>>

ResolveSymbol ==
    /\ arg.op = "resolveSymbol" /\ ret = Pending
    /\ ret' = Returned(resolveSymbol(arg.symbol, arg.typeParameters, arg.moduleName))
    /\ UNCHANGED <<heap, moduleCache, namespaceCache, currentModule, references, locs,
                   arg, ops, history>>

NextType == ResolveType \/ ResolveSymbol

SpecType == InitType /\ [][NextType]_vars

-----------------------------------------------------------------------------
(* Single visits of an exported variable statement on a fresh extractor      *)

MaxTextLen == 260

\* initializer source texts of every length up to MaxTextLen
Texts ==
    { [i \in 1..n |-> c] : n \in 1..MaxTextLen, c \in {"a", "."} }

Statements ==
    { VariableStatement({"export"}, <<
          VariableDeclaration("k", 0, None, Some(Expr("StringLiteral", t))),
          VariableDeclaration("u", 0, None, None),
          VariableDeclaration("n", 0, Some(NumberT), Some(Expr("NumericLiteral", <<"5">>)))>>) :
        t \in Texts }

InitConst ==
    /\ Fresh
    /\ references \in {r \in ReferenceIndexes : r.known = {}}
    /\ arg \in {[op |-> "handleVariableDeclaration", node |-> n] : n \in Statements}

HandleVariableDeclaration ==
    /\ arg.op = "handleVariableDeclaration" /\ ret = Pending
    /\ LET S == handleVariableDeclaration(State, arg.node, <<"s", "/", "a", ".", "t", "s">>)
       IN  /\ heap' = S.heap
           /\ locs' = S.locs
           /\ ret' = [threw |-> S.threw]
    /\ UNCHANGED <<moduleCache, namespaceCache, currentModule, references, arg, ops,
                   history>>

NextConst == HandleVariableDeclaration

SpecConst == InitConst /\ [][NextConst]_vars

-----------------------------------------------------------------------------
(* Reading the state: the statements of a file in the order the traversals  *)
(* reach them, each with the namespace block it lies in, and the module     *)
(* graph                                                                    *)

\* every statement under `statements`, namespace blocks included and entered,
\* with the name of the innermost enclosing namespace block (None: top level)
RECURSIVE Reached(_, _)
Reached(statements, ns) ==
    IF statements = <<>> THEN <<>>
    ELSE LET n == Head(statements)
         IN  <<[ns |-> ns, node |-> n]>>
             \o (IF n.kind = "ModuleDeclaration" /\ n.body # None
                 THEN Reached(n.body[1], Some(n.name)) ELSE <<>>)
             \o Reached(Tail(statements), ns)

ReachedIn(i) == Reached(Files[i].statements, None)

\* the Module that is current when the traversal is at a statement of file i
\* lying in namespace block ns, given the two caches (0: undefined)
ContextModule(mc, nc, i, ns) ==
    IF ns = None
    THEN IF Join(Files[i].fileName) \in DOMAIN mc THEN mc[Join(Files[i].fileName)] ELSE 0
    ELSE IF ns[1] \in DOMAIN nc THEN nc[ns[1]] ELSE 0

SkeletonKinds == {"ClassDeclaration", "InterfaceDeclaration", "TypeAliasDeclaration"}

SkeletonName(node) ==
    IF node.kind = "ClassDeclaration"
    THEN IF node.name # None THEN node.name[1] ELSE "export default"
    ELSE node.name

SkeletonMap(module, kind) ==
    CASE kind = "ClassDeclaration" -> module.classes
      [] kind = "InterfaceDeclaration" -> module.interfaces
      [] kind = "TypeAliasDeclaration" -> module.types

HasSkeleton(h, m, node) ==
    m # 0 /\ MapHas(SkeletonMap(h[m], node.kind), SkeletonName(node))

Children(h, m) == {h[m].modules[i].v : i \in DOMAIN h[m].modules}

RECURSIVE Closure(_, _)
Closure(h, ms) ==
    LET next == ms \cup UNION {Children(h, m) : m \in ms}
    IN  IF next = ms THEN ms ELSE Closure(h, next)

\* the modules reachable from the root through the `modules` maps
Reachable(h) == Closure(h, {1})
Descendants(h, m) == Closure(h, Children(h, m))

KeyCount(map, k) == Cardinality({i \in DOMAIN map : map[i].k = k})

-----------------------------------------------------------------------------
(* Claims *)

\* C1: when Visit (runOnFile) reaches a class, interface or type-alias
\* declaration whose name has no skeleton entry in the module current at that
\* point, the run throws, and the missing entry is not created.
C1_VisitWithoutSkeletonFails ==
    [][arg'.op = "runOnFile" =>
        \A k \in DOMAIN ReachedIn(arg'.file) :
            LET d == ReachedIn(arg'.file)[k]
                m == ContextModule(moduleCache, namespaceCache, arg'.file, d.ns)
            IN  (d.node.kind \in SkeletonKinds /\ ~HasSkeleton(heap, m, d.node))
                    => /\ ret'.threw
                       /\ Len(heap') = Len(heap)
                       /\ ~HasSkeleton(heap', m, d.node)]_vars

\* C1 witness: a Visit that threw inside a defined module, at a declaration
\* that has no skeleton there
C1_Witness ==
    /\ arg.op = "runOnFile"
    /\ ret.threw
    /\ currentModule # 0
    /\ \E k \in DOMAIN ReachedIn(arg.file) :
            LET d == ReachedIn(arg.file)[k]
            IN  /\ d.node.kind \in SkeletonKinds
                /\ ContextModule(moduleCache, namespaceCache, arg.file, d.ns) = currentModule
                /\ ~HasSkeleton(heap, currentModule, d.node)

EnumMemberNames(decl) == [i \in DOMAIN decl.members |-> decl.members[i].name]

\* the enum declarations named `name` that a Prepare of file i files under module m
EnumDeclsInto(mc, nc, i, m, name) ==
    SelectSeq(ReachedIn(i),
              LAMBDA d : /\ d.node.kind = "EnumDeclaration"
                         /\ d.node.name = name
                         /\ ContextModule(mc, nc, i, d.ns) = m)

EnumNames == {"Color", "E"}

\* C2: a Prepare run that meets k declarations of an enum name in a module
\* leaves exactly one EnumDecl for the name there, whose members are the former
\* members followed by the members of the k declarations in encounter order,
\* and whose loc list has grown by k.
C2_EnumDeclarationsAccumulate ==
    [][(arg'.op = "runPreparerOnFile" /\ ~ret'.threw) =>
        \A m \in 1..Len(heap') : \A name \in EnumNames :
            LET had == m <= Len(heap) /\ MapHas(heap[m].enums, name)
                oldMembers == IF had THEN EnumMemberNames(MapGet(heap[m].enums, name)) ELSE <<>>
                oldLocs == IF had THEN Len(MapGet(heap[m].enums, name).loc) ELSE 0
                met == EnumDeclsInto(moduleCache', namespaceCache', arg'.file, m, name)
                added == Flatten([k \in DOMAIN met |-> EnumMemberNames(met[k].node)])
            IN  IF ~had /\ met = <<>>
                THEN ~MapHas(heap'[m].enums, name)
                ELSE /\ KeyCount(heap'[m].enums, name) = 1
                     /\ EnumMemberNames(MapGet(heap'[m].enums, name)) = oldMembers \o added
                     /\ Len(MapGet(heap'[m].enums, name).loc) = oldLocs + Len(met)]_vars

\* C2 witness: Color{Red} then Color{Blue} prepared into one module
C2_Witness ==
    \E m \in 1..Len(heap) :
        /\ MapHas(heap[m].enums, "Color")
        /\ EnumMemberNames(MapGet(heap[m].enums, "Color")) = <<"Red", "Blue">>
        /\ Len(MapGet(heap[m].enums, "Color").loc) = 2

\* C3: the module graph reachable from the root through the `modules` maps is
\* acyclic: no Module is reachable from itself.
C3_ModuleGraphAcyclic ==
    \A m \in Reachable(heap) : m \notin Descendants(heap, m)

HandledKinds ==
    { "TypeReference", "FunctionType", "TypeLiteral", "UnionType", "IntersectionType",
      "TupleType", "TypeOperator", "ArrayType", "ParenthesizedType", "ThisType",
      "LiteralType",
      "NumberKeyword", "StringKeyword", "BooleanKeyword", "TrueKeyword", "FalseKeyword",
      "UndefinedKeyword", "NullKeyword", "VoidKeyword", "AnyKeyword", "UnknownKeyword",
      "NumericLiteral", "BigIntLiteral", "StringLiteral" }

\* C4: resolveType returns a Type for every type node, whatever its kind and
\* the kinds of its members; it never throws.
C4_ResolveTypeNeverFails ==
    (arg.op = "resolveType" /\ ret # Pending) => ~ret.threw

\* the reference index has nothing for what resolveSymbol looks up
Unresolvable(symbol, moduleName) ==
    IF ~symbol.isString /\ "TypeParameter" \in symbol.flags THEN FALSE
    ELSE IF ~symbol.isString /\ "EnumMember" \in symbol.flags /\ symbol.parentEnum # None
    THEN ReferenceManager_resolveSymbol(symbol.parentEnum[1], None) = None
    ELSE ReferenceManager_resolveSymbol(symbol.name, moduleName) = None

\* C5: when the reference index resolves neither the symbol, nor the name
\* string, nor (for an enum member) the parent enum, resolveSymbol returns a
\* Type of kind unknown that carries the symbol's name or the string passed in.
C5_UnresolvedSymbolKeepsName ==
    (arg.op = "resolveSymbol" /\ ret # Pending /\ Unresolvable(arg.symbol, arg.moduleName)) =>
        /\ ~ret.threw
        /\ ret.value.kind = "UNKNOWN"
        /\ "name" \in DOMAIN ret.value
        /\ ret.value.name = arg.symbol.name

NamespaceModules(h, name) == {i \in 1..Len(h) : h[i].isNamespace /\ h[i].name = name}

MapKeys(map) == [i \in DOMAIN map |-> map[i].k]

IsPrefix(a, b) == Len(a) <= Len(b) /\ SubSeq(b, 1, Len(a)) = a

\* every declaration of module a is still a declaration of module b
DeclarationsKept(a, b) ==
    /\ IsPrefix(MapKeys(a.classes), MapKeys(b.classes))
    /\ IsPrefix(MapKeys(a.interfaces), MapKeys(b.interfaces))
    /\ IsPrefix(MapKeys(a.types), MapKeys(b.types))
    /\ IsPrefix(MapKeys(a.enums), MapKeys(b.enums))
    /\ IsPrefix(MapKeys(a.functions), MapKeys(b.functions))
    /\ IsPrefix(a.constants, b.constants)

FunctionName(node) == IF node.name # None THEN node.name[1] ELSE "export default"

\* the exported function declarations named `name` that a Visit of file i
\* reaches while module m is current
FunctionDeclsInto(mc, nc, i, m, name) ==
    SelectSeq(ReachedIn(i),
              LAMBDA d : /\ d.node.kind = "FunctionDeclaration"
                         /\ "export" \in d.node.modifiers
                         /\ FunctionName(d.node) = name
                         /\ ContextModule(mc, nc, i, d.ns) = m)

SignatureCount(h, m, name) ==
    IF MapHas(h[m].functions, name) THEN Len(MapGet(h[m].functions, name).signatures) ELSE 0

FunctionNames == {"f", "g", "h"}

\* C6: a namespace name has exactly one Module. A Prepare run that meets a
\* block of a namespace already cached reuses that Module and keeps its
\* declarations, and leaves exactly one child entry of that name, pointing to
\* it, in the module the block lies in; a Visit run files the exported
\* functions of the namespace's blocks, one signature each, under that Module.
C6_NamespaceModuleShared ==
    [][/\ \A n \in DOMAIN namespaceCache' :
            NamespaceModules(heap', n) = {namespaceCache'[n]}
       /\ (arg'.op = "runPreparerOnFile" /\ ~ret'.threw) =>
            \A k \in DOMAIN ReachedIn(arg'.file) :
                LET d == ReachedIn(arg'.file)[k]
                    n == d.node.name
                    parent == ContextModule(moduleCache', namespaceCache', arg'.file, d.ns)
                IN  (d.node.kind = "ModuleDeclaration" /\ d.node.body # None) =>
                        /\ n \in DOMAIN namespaceCache'
                        /\ n \in DOMAIN namespaceCache =>
                              /\ namespaceCache'[n] = namespaceCache[n]
                              /\ DeclarationsKept(heap[namespaceCache[n]],
                                                  heap'[namespaceCache[n]])
                        /\ KeyCount(heap'[parent].modules, n) = 1
                        /\ MapGet(heap'[parent].modules, n) = namespaceCache'[n]
       /\ (arg'.op = "runOnFile" /\ ~ret'.threw) =>
            /\ namespaceCache' = namespaceCache
            /\ \A n \in DOMAIN namespaceCache : \A f \in FunctionNames :
                    /\ KeyCount(heap'[namespaceCache[n]].functions, f) <= 1
                    /\ SignatureCount(heap', namespaceCache[n], f)
                         = SignatureCount(heap, namespaceCache[n], f)
                           + Len(FunctionDeclsInto(moduleCache, namespaceCache, arg'.file,
                                                   namespaceCache[n], f))]_vars

\* C6 witness: namespace N prepared and visited from the two files of the root
\* directory; its one Module holds function f with both signatures
C6_Witness ==
    /\ "N" \in DOMAIN namespaceCache
    /\ {Join(FileA.fileName), Join(FileB.fileName)} \subseteq DOMAIN moduleCache
    /\ moduleCache[Join(FileA.fileName)] = moduleCache[Join(FileB.fileName)]
    /\ KeyCount(heap[moduleCache[Join(FileA.fileName)]].modules, "N") = 1
    /\ MapHas(heap[namespaceCache["N"]].types, "T")
    /\ MapHas(heap[namespaceCache["N"]].classes, "K")
    /\ SignatureCount(heap, namespaceCache["N"], "f") = 2
    /\ arg.op = "runOnFile" /\ ~ret.threw

\* the declarators of a variable statement that have an initializer
Initialized(node) == SelectSeq(node.declarations, LAMBDA d : d.initializer # None)

\* C7: the content recorded for a declarator with initializer text t is t when
\* t has at most 256 characters, and otherwise the first 256 characters of t
\* followed by "..."; truncating a recorded content again leaves it unchanged.
C7_ConstantContentTruncated ==
    (arg.op = "handleVariableDeclaration" /\ ret # Pending) =>
        /\ ~ret.threw
        /\ Len(heap[1].constants) = Len(Initialized(arg.node))
        /\ \A i \in DOMAIN heap[1].constants :
                LET t == Initialized(arg.node)[i].initializer[1].text
                    content == heap[1].constants[i].content
                IN  /\ Len(t) <= 256 => content = t
                    /\ Len(t) > 256 => content = SubSeq(t, 1, 256) \o <<".", ".", ".">>
                    /\ constantContent(content) = content

\* C7 witness: an initializer of 257 characters recorded as 256 characters and the marker
C7_Witness ==
    /\ arg.op = "handleVariableDeclaration" /\ ret # Pending
    /\ Len(arg.node.declarations[1].initializer[1].text) = 257
    /\ Len(heap[1].constants[1].content) = 259
    /\ Len(heap[1].constants) = 2

\* C8: for a type node of a kind resolveType has no branch for, the result is
\* the stringified-unknown Type whose name is the node's source text.
C8_UnhandledKindStringified ==
    (arg.op = "resolveType" /\ ret # Pending /\ arg.type.kind \notin HandledKinds) =>
        /\ ~ret.threw
        /\ ret.value = [name |-> arg.type.text, kind |-> "STRINGIFIED_UNKNOWN"]

\* C8 witness: a conditional type resolved to its text
C8_Witness ==
    /\ arg.op = "resolveType" /\ ret # Pending
    /\ arg.type.kind = "ConditionalType"
    /\ ret.value.kind = "STRINGIFIED_UNKNOWN"
    /\ ret.value.name = "A extends B ? C : D"

DeclarationCount(m) ==
    Len(m.classes) + Len(m.interfaces) + Len(m.types) + Len(m.enums)
    + Len(m.functions) + Len(m.constants)

RECURSIVE Sum(_)
Sum(numbers) == IF numbers = <<>> THEN 0 ELSE Head(numbers) + Sum(Tail(numbers))

\* the declarations held by the modules reachable from the root
HeapDeclarations(h) ==
    Sum([m \in 1..Len(h) |-> IF m \in Reachable(h) THEN DeclarationCount(h[m]) ELSE 0])

\* the number of entries of all `modules` maps that point to module m
ParentEntries(h, m) ==
    Sum([p \in 1..Len(h) |->
            IF p \in Reachable(h)
            THEN Cardinality({i \in DOMAIN h[p].modules : h[p].modules[i].v = m})
            ELSE 0])

\* the modules reachable from the root form a tree
IsModuleTree(h) ==
    \A m \in Reachable(h) : ParentEntries(h, m) = IF m = 1 THEN 0 ELSE 1

RECURSIVE JsonDeclarations(_)
JsonDeclarations(json) ==
    DeclarationCount(json)
    + Sum([i \in DOMAIN json.modules |-> JsonDeclarations(json.modules[i])])

\* the serialised form of module m: arrays of the maps' values in insertion
\* order, children in the order of the `modules` map
RECURSIVE JsonOf(_, _, _)
JsonOf(h, m, json) ==
    /\ json.classes = [i \in DOMAIN h[m].classes |-> h[m].classes[i].v]
    /\ json.interfaces = [i \in DOMAIN h[m].interfaces |-> h[m].interfaces[i].v]
    /\ json.types = [i \in DOMAIN h[m].types |-> h[m].types[i].v]
    /\ json.enums = [i \in DOMAIN h[m].enums |-> h[m].enums[i].v]
    /\ json.functions = [i \in DOMAIN h[m].functions |-> h[m].functions[i].v]
    /\ json.constants = h[m].constants
    /\ DOMAIN json.modules = DOMAIN h[m].modules
    /\ \A i \in DOMAIN json.modules : JsonOf(h, h[m].modules[i].v, json.modules[i])

\* C9: on a module tree holding N declarations, toJSON returns, for every
\* module, the arrays of its maps' values in insertion order with the child
\* modules serialised the same way in place, and the output holds N declarations.
C9_SerializedTreeComplete ==
    (arg.op = "toJSON" /\ IsModuleTree(heap)) =>
        /\ ~ret.threw
        /\ JsonOf(heap, 1, ret.value.module)
        /\ JsonDeclarations(ret.value.module) = HeapDeclarations(heap)

\* C9 witness: a serialised tree with child modules that hold declarations
C9_Witness ==
    /\ arg.op = "toJSON" /\ IsModuleTree(heap) /\ ~ret.threw
    /\ Cardinality(Reachable(heap)) >= 3
    /\ \E m \in Reachable(heap) \ {1} :
            /\ DeclarationCount(heap[m]) >= 2
            /\ \E c \in Children(heap, m) : DeclarationCount(heap[c]) >= 1

\* C10: with no repository configured on the root, no Loc that getLOC returns
\* carries a locator string.
C10_NoRepositoryNoLocator ==
    heap[1].repository = None => \A l \in locs : l.loc.sourceFile = None

SignaturesOf(h, m, name) ==
    IF m <= Len(h) /\ MapHas(h[m].functions, name)
    THEN MapGet(h[m].functions, name).signatures ELSE <<>>

SignatureLines(signatures) == [i \in DOMAIN signatures |-> signatures[i].loc.pos.line]

DeclarationLines(reached) == [i \in DOMAIN reached |-> reached[i].node.line]

\* C11: a module's functions map never holds two entries for a name and never
\* loses or replaces a signature; a Visit run appends to the entry of each
\* name one signature per exported declaration of that name it visits in the
\* module, in visit order, and files nothing for a declaration that is not
\* exported.
C11_FunctionOverloadsAppended ==
    [][\A m \in 1..Len(heap') : \A f \in FunctionNames :
          /\ KeyCount(heap'[m].functions, f) <= 1
          /\ IsPrefix(SignaturesOf(heap, m, f), SignaturesOf(heap', m, f))
          /\ (arg'.op = "runOnFile" /\ ~ret'.threw) =>
                SignatureLines(SignaturesOf(heap', m, f))
                    = SignatureLines(SignaturesOf(heap, m, f))
                      \o DeclarationLines(FunctionDeclsInto(moduleCache, namespaceCache,
                                                            arg'.file, m, f))
          /\ arg'.op # "runOnFile" => SignaturesOf(heap', m, f) = SignaturesOf(heap, m, f)]_vars

\* C11 witness: the two declarations of g visited twice: one entry, four
\* signatures in visit order
C11_Witness ==
    \E m \in 1..Len(heap) :
        /\ KeyCount(heap[m].functions, "g") = 1
        /\ SignatureLines(SignaturesOf(heap, m, "g")) = <<1, 2, 1, 2>>
        /\ ~MapHas(heap[m].functions, "h")

\* the directory segments between the base directory and file i
SegmentsOf(i) == pathsOf(SplitSlash(Files[i].fileName, <<"">>))

\* the module reached from module m by one child per segment (0: none)
RECURSIVE Descend(_, _, _)
Descend(h, m, segments) ==
    IF segments = <<>> THEN m
    ELSE IF MapHas(h[m].modules, Head(segments))
    THEN Descend(h, MapGet(h[m].modules, Head(segments)), Tail(segments))
    ELSE 0

FileKey(i) == Join(Files[i].fileName)

\* C12: the Module that runPreparerOnFile takes from moduleFromFile for a file
\* is the one reached from the root by one child per directory segment; when
\* the file, or another file of the same directory, was given a Module before,
\* it is that same Module and no Module is created for a segment.
C12_ModuleFromFileStable ==
    [][arg'.op = "runPreparerOnFile" =>
        /\ moduleCache'[FileKey(arg'.file)] = Descend(heap', 1, SegmentsOf(arg'.file))
        /\ \A j \in DOMAIN Files :
              (FileKey(j) \in DOMAIN moduleCache /\ SegmentsOf(j) = SegmentsOf(arg'.file)) =>
                  /\ moduleCache'[FileKey(arg'.file)] = moduleCache[FileKey(j)]
                  /\ {m \in 1..Len(heap') : ~heap'[m].isNamespace}
                        = {m \in 1..Len(heap) : ~heap[m].isNamespace}]_vars

\* every file of a project has been prepared once and then visited once, and
\* no run threw; the project is the set of files prepared
PassComplete ==
    history.regular /\ history.prepared # {} /\ history.visited = history.prepared

ClassesOf(h) ==
    UNION { {h[m].classes[i].v : i \in DOMAIN h[m].classes} : m \in 1..Len(h) }

\* C13: after Prepare of every file followed by Visit of every file, the
\* methods list of every ClassDecl holds at most one entry per method name.
C13_OneEntryPerMethodName ==
    PassComplete =>
        \A c \in ClassesOf(heap) :
            \A i, j \in DOMAIN c.methods :
                c.methods[i].name = c.methods[j].name => i = j

IsAccessor(method) == "isGetter" \in DOMAIN method \/ "isSetter" \in DOMAIN method

\* C14: every ClassMethod flagged as getter or setter has exactly one signature.
C14_AccessorsSingleSignature ==
    \A c \in ClassesOf(heap) :
        \A i \in DOMAIN c.methods :
            IsAccessor(c.methods[i]) => Len(c.methods[i].signatures) = 1

TypesOf(h, m) == {h[m].types[i].v : i \in DOMAIN h[m].types}

\* C15: once every file has been prepared and then visited to completion,
\* every TypeDecl of every module, directory or namespace, has its value.
C15_TypeValuesAttached ==
    PassComplete =>
        \A m \in 1..Len(heap) : \A t \in TypesOf(heap, m) : t.value # None

\* C15 witness: a pass over two files that leaves a valued type alias in a
\* namespace module and one in a directory module
C15_Witness ==
    /\ PassComplete
    /\ Cardinality(history.prepared) = 2
    /\ \E m, n \in 1..Len(heap) :
            /\ heap[m].isNamespace /\ ~heap[n].isNamespace
            /\ \E t \in TypesOf(heap, m) : t.value # None
            /\ \E t \in TypesOf(heap, n) : t.value # None

CachedModules ==
    {moduleCache[k] : k \in DOMAIN moduleCache}
        \cup {namespaceCache[n] : n \in DOMAIN namespaceCache}

\* C16: every Module recorded in moduleCache or namespaceCache is reachable
\* from the root through the modules maps.
C16_CachedModulesReachable == CachedModules \subseteq Reachable(heap)

\* "#L<line + 1>" for the lines that Locs were made for; a locator carries one
\* per namespace block around the declaration
LineRefs == {"#L" \o ToString(l.loc.pos.line + 1) : l \in locs}
LineSuffixes == LineRefs \cup {a \o b : a \in LineRefs, b \in LineRefs}

\* the locators built from the name of file i: a directory module's repository,
\* the file's last path item, and line references
AnchoredOn(h, i) ==
    {Template(h[m].repository) \o "/" \o getLastItemFromPath(Files[i].fileName) \o suffix :
        m \in {d \in 1..Len(h) : ~h[d].isNamespace}, suffix \in LineSuffixes}

\* C17: with a repository configured, the locator of every Loc made inside a
\* namespace block is built from the name of the file the block appears in.
C17_NamespaceLocatorOwnFile ==
    heap[1].repository # None =>
        \A l \in locs :
            (heap[l.module].isNamespace /\ l.loc.sourceFile # None) =>
                \E i \in DOMAIN Files :
                    /\ FileKey(i) = l.file
                    /\ l.loc.sourceFile[1] \in AnchoredOn(heap, i)

====
